---- MODULE Spec2Model ----
(***************************************************************************)
(* Model of backend/server.py: the prediction engine (calculate_subscore,  *)
(* predict), the configuration handlers (get_config, update_config) and    *)
(* the temperature ingestion handler (ingest_temperature), over the three  *)
(* MongoDB collections they use (config, latest_temperature, predictions). *)
(*                                                                         *)
(* Numbers.  The code computes in Python floats.  The model draws every    *)
(* input from integers and computes scores as exact rationals [n, d] in    *)
(* lowest terms, so that 30, 70, 100 and the tier limits 35 and 70 are     *)
(* compared exactly.  Python's None is the empty sequence <<>> and a       *)
(* present optional value v is <<v>>.                                      *)
(*                                                                         *)
(* Callers.  Every call is made with a valid token (get_current_user       *)
(* succeeds); update_config also looks at the caller's role.  Each         *)
(* database call is one atomic step; a handler yields only at its awaits.  *)
(***************************************************************************)
EXTENDS Integers, Sequences, FiniteSets, TLC

\* ------------------------------------------------------------------------
\* Exact rational arithmetic (the model's stand-in for float arithmetic)
\* ------------------------------------------------------------------------

Abs(x) == IF x < 0 THEN -x ELSE x

RECURSIVE Gcd(_, _)
Gcd(a, b) == IF b = 0 THEN a ELSE Gcd(b, a % b)

\* The rational n/d (d # 0) in lowest terms with a positive denominator.
Rat(n, d) ==
    LET g == Gcd(Abs(n), Abs(d))
        s == IF d < 0 THEN -1 ELSE 1
    IN  [n |-> (s * n) \div g, d |-> (s * d) \div g]

RInt(k) == [n |-> k, d |-> 1]

RAdd(a, b) == Rat(a.n * b.d + b.n * a.d, a.d * b.d)

RSub(a, b) == Rat(a.n * b.d - b.n * a.d, a.d * b.d)

RMul(a, b) == Rat(a.n * b.n, a.d * b.d)

RLe(a, b) == a.n * b.d <= b.n * a.d

RLt(a, b) == a.n * b.d < b.n * a.d

RGe(a, b) == RLe(b, a)

\* Python's min(a, b): b when b < a, otherwise a.
RMin(a, b) == IF RLt(b, a) THEN b ELSE a

\* round(x, 2): the nearest multiple of 1/100, a tie going to the even
\* hundredth (Python rounds half to even).
Round2(x) ==
    LET num == 100 * x.n
        q   == num \div x.d
        r   == num - q * x.d
        h   == IF 2 * r < x.d THEN q
               ELSE IF 2 * r > x.d THEN q + 1
               ELSE IF q % 2 = 0 THEN q ELSE q + 1
    IN  Rat(h, 100)

\* ------------------------------------------------------------------------
\* calculate_subscore
\* ------------------------------------------------------------------------

\* `if red_threshold:` -- a red breakpoint that is given and is not 0.
RedTruthy(red) == red # <<>> /\ red[1] # 0

\* The divisions of calculate_subscore that raise ZeroDivisionError.
SubscoreRaises(value, green, yellow, red) ==
    IF value <= green THEN green = 0
    ELSE IF value <= yellow THEN yellow - green = 0
    ELSE IF RedTruthy(red) THEN red[1] - yellow = 0
    ELSE yellow = 0

\* Mutant of calculate_subscore: the position past yellow is not clamped to
\* the yellow-to-red span.
calculate_subscore_Unclamped(value, green, yellow, red) ==
    IF value <= green THEN
        RMul(Rat(value, green), RInt(30))
    ELSE IF value <= yellow THEN
        RAdd(RInt(30), RMul(Rat(value - green, yellow - green), RInt(40)))
    ELSE IF RedTruthy(red) THEN
        RAdd(RInt(70), RMul(Rat(value - yellow, red[1] - yellow), RInt(30)))
    ELSE
        RMin(RAdd(RInt(70), RMul(Rat(value - yellow, yellow), RInt(30))), RInt(100))

calculate_subscore(value, green, yellow, red) ==
    IF value <= green THEN
        RMul(Rat(value, green), RInt(30))
    ELSE IF value <= yellow THEN
        LET range_size == yellow - green
            position   == value - green
        IN  RAdd(RInt(30), RMul(Rat(position, range_size), RInt(40)))
    ELSE IF RedTruthy(red) THEN
        LET range_size == red[1] - yellow
            position   == IF range_size < value - yellow
                          THEN range_size ELSE value - yellow
        IN  RAdd(RInt(70), RMul(Rat(position, range_size), RInt(30)))
    ELSE
        LET overshoot == value - yellow
        IN  RMin(RAdd(RInt(70), RMul(Rat(overshoot, yellow), RInt(30))),
                 RInt(100))

\* ------------------------------------------------------------------------
\* Module-level constants of server.py
\* ------------------------------------------------------------------------

API_KEY == "default_esp32_key_change_me"

\* The machine types ingest_temperature accepts and DEFAULT_THRESHOLDS lists.
MachineTypes == {"CNC", "EDM", "Lathe", "Grinding"}

DEFAULT_THRESHOLDS ==
    [prototype_low_temp |->
        [temperature |-> [green |-> 40, yellow |-> 45, red |-> 120]],
     shopfloor_high_temp |->
        [CNC      |-> [green |-> 75, yellow |-> 95, red |-> 120],
         EDM      |-> [green |-> 70, yellow |-> 90, red |-> 120],
         Lathe    |-> [green |-> 70, yellow |-> 90, red |-> 120],
         Grinding |-> [green |-> 65, yellow |-> 85, red |-> 120]],
     vibration |->
        [CNC      |-> [green |-> 70, yellow |-> 100],
         EDM      |-> [green |-> 60, yellow |-> 90],
         Lathe    |-> [green |-> 70, yellow |-> 100],
         Grinding |-> [green |-> 50, yellow |-> 80]],
     feed_rate |->
        [CNC      |-> [green |-> 1500, yellow |-> 2000],
         EDM      |-> [green |-> 500, yellow |-> 700],
         Lathe    |-> [green |-> 900, yellow |-> 1200],
         Grinding |-> [green |-> 400, yellow |-> 600]],
     running_hours |->
        [CNC      |-> [green |-> 10000, yellow |-> 12000],
         EDM      |-> [green |-> 9000, yellow |-> 11000],
         Lathe    |-> [green |-> 11000, yellow |-> 13000],
         Grinding |-> [green |-> 8000, yellow |-> 10000]]]

\* The document predict inserts, and get_config returns, when the config
\* collection is empty.
DefaultConfig ==
    [sensor_mode |-> "prototype_low_temp",
     thresholds  |-> DEFAULT_THRESHOLDS,
     api_key     |-> API_KEY]

\* ------------------------------------------------------------------------
\* predict: the scoring between the last read and the insert
\* ------------------------------------------------------------------------

\* dict.get(key, default)
DictGet(d, key, default) == IF key \in DOMAIN d THEN d[key] ELSE default

\* sensor_mode = config.get('sensor_mode', 'prototype_low_temp')
ConfigSensorMode(config) == DictGet(config, "sensor_mode", "prototype_low_temp")

\* thresholds = config.get('thresholds', DEFAULT_THRESHOLDS)
ConfigThresholds(config) == DictGet(config, "thresholds", DEFAULT_THRESHOLDS)

\* The subscripts thresholds[...][...] that raise KeyError.
LookupRaises(sensor_mode, thresholds, machine) ==
    \/ IF sensor_mode = "prototype_low_temp"
       THEN \/ "prototype_low_temp" \notin DOMAIN thresholds
            \/ "temperature" \notin DOMAIN thresholds["prototype_low_temp"]
       ELSE \/ "shopfloor_high_temp" \notin DOMAIN thresholds
            \/ machine \notin DOMAIN thresholds["shopfloor_high_temp"]
    \/ \E metric \in {"vibration", "feed_rate", "running_hours"} :
          \/ metric \notin DOMAIN thresholds
          \/ machine \notin DOMAIN thresholds[metric]

temp_thresholds(sensor_mode, thresholds, machine) ==
    IF sensor_mode = "prototype_low_temp"
    THEN thresholds["prototype_low_temp"]["temperature"]
    ELSE thresholds["shopfloor_high_temp"][machine]

vib_thresholds(thresholds, machine) == thresholds["vibration"][machine]

feed_thresholds(thresholds, machine) == thresholds["feed_rate"][machine]

hours_thresholds(thresholds, machine) == thresholds["running_hours"][machine]

\* temp_thresholds.get('red', 120)
TempRed(tt) == DictGet(tt, "red", 120)

\* A band subscripted with ['green'] or ['yellow'] that it lacks (KeyError),
\* or a division by zero inside calculate_subscore.
BandRaises(value, band, red) ==
    \/ "green" \notin DOMAIN band
    \/ "yellow" \notin DOMAIN band
    \/ SubscoreRaises(value, band["green"], band["yellow"], red)

\* predict raises between reading the temperature and saving the prediction.
ScoreRaises(request, temperature, sensor_mode, thresholds) ==
    LET machine == request.machine_type IN
    \/ LookupRaises(sensor_mode, thresholds, machine)
    \/ LET tt == temp_thresholds(sensor_mode, thresholds, machine)
       IN  BandRaises(temperature, tt, <<TempRed(tt)>>)
    \/ BandRaises(request.vibration, vib_thresholds(thresholds, machine), <<>>)
    \/ BandRaises(request.feeding_rate, feed_thresholds(thresholds, machine), <<>>)
    \/ BandRaises(request.running_hours, hours_thresholds(thresholds, machine), <<>>)

\* risk_score = sum of weight * subscore, weights 0.35, 0.35, 0.15, 0.15
WeightedRisk(temp_subscore, vib_subscore, feed_subscore, hours_subscore) ==
    RAdd(RAdd(RMul(Rat(35, 100), temp_subscore),
              RMul(Rat(35, 100), vib_subscore)),
         RAdd(RMul(Rat(15, 100), feed_subscore),
              RMul(Rat(15, 100), hours_subscore)))

\* One entry of explanation_parts: the metric, its value, the zone the text
\* names and the breakpoint the text quotes.
Part(metric, value, zone, bound) ==
    [metric |-> metric, value |-> value, zone |-> zone, bound |-> bound]

\* Mutant of TemperatureCheck: the RED zone adds no alert.
TemperatureCheck_SilentRed(temperature, tt) ==
    IF temperature > TempRed(tt) THEN
        [alerts |-> <<>>,
         part   |-> Part("Temperature", temperature, "RED", TempRed(tt))]
    ELSE IF temperature > tt["yellow"] THEN
        [alerts |-> <<"Temperature approaching limits">>,
         part   |-> Part("Temperature", temperature, "YELLOW", tt["yellow"])]
    ELSE
        [alerts |-> <<>>,
         part   |-> Part("Temperature", temperature, "GREEN", tt["green"])]

\* "Check each metric", temperature: its alert (or none) and its text.
TemperatureCheck(temperature, tt) ==
    IF temperature > TempRed(tt) THEN
        [alerts |-> <<"CRITICAL: Temperature exceeds safe limits">>,
         part   |-> Part("Temperature", temperature, "RED", TempRed(tt))]
    ELSE IF temperature > tt["yellow"] THEN
        [alerts |-> <<"Temperature approaching limits">>,
         part   |-> Part("Temperature", temperature, "YELLOW", tt["yellow"])]
    ELSE
        [alerts |-> <<>>,
         part   |-> Part("Temperature", temperature, "GREEN", tt["green"])]

\* "Check each metric", vibration / feed rate / running hours.
MetricCheck(metric, value, band, red_alert, yellow_alert) ==
    IF value > band["yellow"] THEN
        [alerts |-> <<red_alert>>,
         part   |-> Part(metric, value, "RED", band["yellow"])]
    ELSE IF value > band["green"] THEN
        [alerts |-> <<yellow_alert>>,
         part   |-> Part(metric, value, "YELLOW", band["green"])]
    ELSE
        [alerts |-> <<>>,
         part   |-> Part(metric, value, "GREEN", band["green"])]

\* Mutant of has_red: only the temperature is looked at.
has_red_TemperatureOnly(request, temperature, tt, vt, ft, ht) ==
    temperature > TempRed(tt)

has_red(request, temperature, tt, vt, ft, ht) ==
    \/ temperature > TempRed(tt)
    \/ request.vibration > vt["yellow"]
    \/ request.feeding_rate > ft["yellow"]
    \/ request.running_hours > ht["yellow"]

has_yellow(request, temperature, tt, vt, ft, ht) ==
    \/ temperature > tt["yellow"]
    \/ request.vibration > vt["green"]
    \/ request.feeding_rate > ft["green"]
    \/ request.running_hours > ht["green"]

\* Mutant of Classify: no generic alert is substituted for an empty list.
Classify_NoFallback(red, yellow, risk_score, alerts) ==
    IF red \/ RGe(risk_score, RInt(70)) THEN
        [condition_level |-> "Critical", alerts |-> alerts]
    ELSE IF yellow \/ RGe(risk_score, RInt(35)) THEN
        [condition_level |-> "Medium", alerts |-> alerts]
    ELSE
        [condition_level |-> "Good",
         alerts |-> <<"All metrics within safe bands">>]

\* The tier and the final alerts list, from the flags, the unrounded score
\* and the alerts the four metric checks collected.
Classify(red, yellow, risk_score, alerts) ==
    IF red \/ RGe(risk_score, RInt(70)) THEN
        [condition_level |-> "Critical",
         alerts |-> IF alerts = <<>>
                    THEN <<"Immediate repair recommended">> ELSE alerts]
    ELSE IF yellow \/ RGe(risk_score, RInt(35)) THEN
        [condition_level |-> "Medium",
         alerts |-> IF alerts = <<>>
                    THEN <<"Schedule inspection">> ELSE alerts]
    ELSE
        [condition_level |-> "Good",
         alerts |-> <<"All metrics within safe bands">>]

\* Everything predict computes from the request, the temperature it settled
\* on and the configuration it read, when nothing raises.
Score(request, temperature, sensor_mode, thresholds) ==
    LET machine == request.machine_type
        tt == temp_thresholds(sensor_mode, thresholds, machine)
        vt == vib_thresholds(thresholds, machine)
        ft == feed_thresholds(thresholds, machine)
        ht == hours_thresholds(thresholds, machine)
        temp_subscore ==
            calculate_subscore(temperature, tt["green"], tt["yellow"], <<TempRed(tt)>>)
        vib_subscore ==
            calculate_subscore(request.vibration, vt["green"], vt["yellow"], <<>>)
        feed_subscore ==
            calculate_subscore(request.feeding_rate, ft["green"], ft["yellow"], <<>>)
        hours_subscore ==
            calculate_subscore(request.running_hours, ht["green"], ht["yellow"], <<>>)
        risk_score ==
            WeightedRisk(temp_subscore, vib_subscore, feed_subscore, hours_subscore)
        tc == TemperatureCheck(temperature, tt)
        vc == MetricCheck("Vibration", request.vibration, vt,
                          "Vibration exceeds normal range", "Vibration caution")
        fc == MetricCheck("Feed rate", request.feeding_rate, ft,
                          "Feed rate too high", "Feed rate elevated")
        hc == MetricCheck("Running hours", request.running_hours, ht,
                          "Service window exceeded", "Service window approaching")
        alerts == tc.alerts \o vc.alerts \o fc.alerts \o hc.alerts
        cls == Classify(has_red(request, temperature, tt, vt, ft, ht),
                        has_yellow(request, temperature, tt, vt, ft, ht),
                        risk_score, alerts)
    IN  [condition_level |-> cls.condition_level,
         risk_score      |-> Round2(risk_score),
         explanation     |-> <<tc.part, vc.part, fc.part, hc.part>>,
         alerts          |-> cls.alerts,
         thresholds_used |-> [sensor_mode   |-> sensor_mode,
                              temperature   |-> tt,
                              vibration     |-> vt,
                              feed_rate     |-> ft,
                              running_hours |-> ht]]

\* The document predict saves (id and prediction_date, a fresh uuid and the
\* clock, are left out).
PredictionDoc(request, temperature, result) ==
    [machine_type     |-> request.machine_type,
     running_hours    |-> request.running_hours,
     feeding_rate     |-> request.feeding_rate,
     temperature      |-> temperature,
     vibration        |-> request.vibration,
     maintenance_date |-> request.maintenance_date,
     risk_score       |-> result.risk_score,
     condition_level  |-> result.condition_level,
     explanation      |-> result.explanation,
     alerts           |-> result.alerts]

\* ------------------------------------------------------------------------
\* State
\* ------------------------------------------------------------------------

VARIABLES
    db_config,              \* collection db.config: documents in insertion order
    db_latest_temperature,  \* collection db.latest_temperature
    db_predictions,         \* collection db.predictions
    pc,                     \* per predict request: the await it stands at
    request,                \* per predict request: its PredictionRequest
    config,                 \* per predict request: the local `config`
    temperature,            \* per predict request: the local `temperature`
    response,               \* per predict request: what the handler returned
    config_response,        \* what the last get_config call returned
    sub_args,               \* calculate_subscore on its own: the arguments
    sub_result,             \* calculate_subscore on its own: the value returned
    last_ingested           \* history: per machine type, the temperature of the
                            \* last ingest_temperature call that returned ok

vars == <<db_config, db_latest_temperature, db_predictions, pc, request, config,
          temperature, response, config_response, sub_args, sub_result,
          last_ingested>>

\* The predict requests that may be in flight together.
Procs == {"p1", "p2"}

\* The empty filter {} and the empty document.
EmptyDoc == [k \in {} |-> 0]

\* A document matches a filter of equality fields.
Matches(doc, filter) ==
    \A k \in DOMAIN filter : k \in DOMAIN doc /\ doc[k] = filter[k]

\* The position of the first document of a collection that matches, 0 if none.
FirstMatch(coll, filter) ==
    LET hits == {i \in 1..Len(coll) : Matches(coll[i], filter)}
    IN  IF hits = {} THEN 0 ELSE CHOOSE i \in hits : \A j \in hits : i <= j

\* db.<collection>.find_one(filter): the first matching document, or None.
FindOne(coll, filter) ==
    LET i == FirstMatch(coll, filter)
    IN  IF i = 0 THEN <<>> ELSE <<coll[i]>>

\* `if not config` / `if not temp_data`: None or an empty document.
Falsy(found) == found = <<>> \/ DOMAIN found[1] = {}

\* {"$set": fields} applied to one document.
SetFields(doc, fields) ==
    [k \in DOMAIN doc \cup DOMAIN fields |->
        IF k \in DOMAIN fields THEN fields[k] ELSE doc[k]]

\* Mutant of Upsert: insert_one, a new document on every call.
Upsert_AlwaysInsert(coll, filter, fields) ==
    Append(coll, SetFields(filter, fields))

\* db.<collection>.update_one(filter, {"$set": fields}, upsert=True): the first
\* matching document is updated; when none matches, a document made of the
\* filter's equality fields and `fields` is inserted.
Upsert(coll, filter, fields) ==
    LET i == FirstMatch(coll, filter)
    IN  IF i = 0
        THEN Append(coll, SetFields(filter, fields))
        ELSE [coll EXCEPT ![i] = SetFields(coll[i], fields)]

\* ------------------------------------------------------------------------
\* predict, one action per await
\* ------------------------------------------------------------------------

\* Mutant of AfterConfig: `if not temperature`, a supplied 0 counts as missing.
AfterConfig_ZeroIsMissing(p, req) ==
    IF req.temperature = <<>> \/ req.temperature = <<0>>
    THEN /\ pc' = [pc EXCEPT ![p] = "find_temperature"]
         /\ UNCHANGED temperature
    ELSE /\ pc' = [pc EXCEPT ![p] = "score"]
         /\ temperature' = [temperature EXCEPT ![p] = req.temperature]

\* Lines 322-324 after the configuration is settled: a supplied temperature
\* is used as it is, a missing one is looked up next.
AfterConfig(p, req) ==
    IF req.temperature = <<>>
    THEN /\ pc' = [pc EXCEPT ![p] = "find_temperature"]
         /\ UNCHANGED temperature
    ELSE /\ pc' = [pc EXCEPT ![p] = "score"]
         /\ temperature' = [temperature EXCEPT ![p] = req.temperature]

\* config = await db.config.find_one({}, {"_id": 0})
PredictFindConfig(p, req) ==
    /\ pc[p] = "idle"
    /\ request' = [request EXCEPT ![p] = <<req>>]
    /\ LET found == FindOne(db_config, EmptyDoc) IN
       IF Falsy(found)
       THEN /\ config' = [config EXCEPT ![p] = <<DefaultConfig>>]
            /\ pc' = [pc EXCEPT ![p] = "insert_config"]
            /\ UNCHANGED temperature
       ELSE /\ config' = [config EXCEPT ![p] = found]
            /\ AfterConfig(p, req)
    /\ UNCHANGED <<db_config, db_latest_temperature, db_predictions, response,
                   config_response, sub_args, sub_result,
                   last_ingested>>

\* await db.config.insert_one(config)
PredictInsertConfig(p) ==
    /\ pc[p] = "insert_config"
    /\ db_config' = Append(db_config, config[p][1])
    /\ AfterConfig(p, request[p][1])
    /\ UNCHANGED <<db_latest_temperature, db_predictions, request, config, response,
                   config_response, sub_args, sub_result,
                   last_ingested>>

ErrorResponse(status_code) == [status_code |-> status_code]

\* temp_data = await db.latest_temperature.find_one({"machine_type": ...})
PredictFindTemperature(p) ==
    /\ pc[p] = "find_temperature"
    /\ LET temp_data == FindOne(db_latest_temperature,
                                [machine_type |-> request[p][1].machine_type])
       IN  IF Falsy(temp_data)
           THEN /\ response' = [response EXCEPT ![p] = <<ErrorResponse(400)>>]
                /\ pc' = [pc EXCEPT ![p] = "done"]
                /\ config' = [config EXCEPT ![p] = <<>>]
                /\ UNCHANGED temperature
           ELSE /\ temperature' = [temperature EXCEPT ![p] = <<temp_data[1].temperature>>]
                /\ pc' = [pc EXCEPT ![p] = "score"]
                /\ UNCHANGED <<response, config>>
    /\ UNCHANGED <<db_config, db_latest_temperature, db_predictions, request,
                   config_response, sub_args, sub_result,
                   last_ingested>>

\* Lines 330-481: the scoring, then await db.predictions.insert_one(doc) and
\* the return.  An exception raised by the scoring ends the request with
\* status 500 and nothing saved.
PredictScoreAndSave(p) ==
    /\ pc[p] = "score"
    /\ LET req         == request[p][1]
           sensor_mode == ConfigSensorMode(config[p][1])
           thresholds  == ConfigThresholds(config[p][1])
       IN  IF ScoreRaises(req, temperature[p][1], sensor_mode, thresholds)
           THEN /\ response' = [response EXCEPT ![p] = <<ErrorResponse(500)>>]
                /\ UNCHANGED db_predictions
           ELSE LET result == Score(req, temperature[p][1], sensor_mode, thresholds) IN
                /\ db_predictions' =
                      Append(db_predictions, PredictionDoc(req, temperature[p][1], result))
                /\ response' = [response EXCEPT ![p] =
                                   <<[status_code |-> 200] @@ result>>]
    /\ pc' = [pc EXCEPT ![p] = "done"]
    /\ config' = [config EXCEPT ![p] = <<>>]
    /\ UNCHANGED <<db_config, db_latest_temperature, request, temperature,
                   config_response, sub_args, sub_result,
                   last_ingested>>

\* ------------------------------------------------------------------------
\* get_config, update_config, ingest_temperature
\* ------------------------------------------------------------------------

GetConfig ==
    /\ LET found == FindOne(db_config, EmptyDoc) IN
       config_response' = IF Falsy(found) THEN <<DefaultConfig>> ELSE found
    /\ UNCHANGED <<db_config, db_latest_temperature, db_predictions, pc, request,
                   config, temperature, response, sub_args, sub_result,
                   last_ingested>>

\* Only a Manager's call reaches update_one; any other role gets 403.
UpdateConfig(role, config_data) ==
    /\ IF role # "Manager"
       THEN UNCHANGED db_config
       ELSE db_config' = Upsert(db_config, EmptyDoc, config_data)
    /\ UNCHANGED <<db_latest_temperature, db_predictions, pc, request, config,
                   temperature, response, config_response, sub_args, sub_result,
                   last_ingested>>

\* A wrong API key (401) or an unknown machine type (400) changes nothing;
\* otherwise the machine's latest temperature is upserted (updated_at, the
\* clock, is left out).
IngestTemperature(data) ==
    /\ IF data.api_key # API_KEY \/ data.machine_type \notin MachineTypes
       THEN UNCHANGED <<db_latest_temperature, last_ingested>>
       ELSE LET doc == [machine_type |-> data.machine_type,
                        temperature  |-> data.temperature]
            IN  /\ db_latest_temperature' =
                       Upsert(db_latest_temperature,
                              [machine_type |-> data.machine_type], doc)
                /\ last_ingested' = [last_ingested EXCEPT
                                        ![data.machine_type] = <<data.temperature>>]
    /\ UNCHANGED <<db_config, db_predictions, pc, request, config, temperature,
                   response, config_response, sub_args, sub_result>>

\* ------------------------------------------------------------------------
\* Inputs
\* ------------------------------------------------------------------------

\* A machine type DEFAULT_THRESHOLDS does not list.
UnknownMachine == "Drill"

RequestMachines == MachineTypes \cup {UnknownMachine}

\* Where a reading's value lies relative to the machine's default band:
\* below zero, zero, on the green breakpoint, on the yellow breakpoint, and
\* far past yellow.
Levels == {"neg", "zero", "green", "yellow", "over"}

LevelValue(metric, machine, level) ==
    LET band == DEFAULT_THRESHOLDS[metric][IF machine \in MachineTypes
                                           THEN machine ELSE "CNC"]
    IN  CASE level = "neg"    -> 0 - band["green"]
          [] level = "zero"   -> 0
          [] level = "green"  -> band["green"]
          [] level = "yellow" -> band["yellow"]
          [] level = "over"   -> 2 * band["yellow"]

\* <<vibration, feed rate, running hours>> levels of the readings tried: the
\* three metrics together on one level, one metric alone off zero, and two
\* mixes.
Profiles ==
    {<<l, l, l>> : l \in Levels}
    \cup {<<l, "zero", "zero">> : l \in Levels}
    \cup {<<"zero", "over", "zero">>, <<"zero", "zero", "over">>,
          <<"yellow", "over", "green">>, <<"green", "yellow", "over">>}

\* None, a supplied 0, the prototype band's yellow breakpoint, the CNC
\* shop-floor band's yellow breakpoint, and a value past every red.
TemperatureOptions == {<<>>, <<0>>, <<45>>, <<95>>, <<130>>}

Reading(machine, temp, profile) ==
    [machine_type     |-> machine,
     running_hours    |-> LevelValue("running_hours", machine, profile[3]),
     feeding_rate     |-> LevelValue("feed_rate", machine, profile[2]),
     temperature      |-> temp,
     vibration        |-> LevelValue("vibration", machine, profile[1]),
     maintenance_date |-> "2024-01-01"]

Readings ==
    {Reading(m, t, pr) : m \in RequestMachines, t \in TemperatureOptions,
                         pr \in Profiles}

\* The few readings used where two predict requests interleave.
FewReadings ==
    {Reading(m, t, <<"zero", "zero", "zero">>) :
        m \in {"CNC", UnknownMachine}, t \in {<<>>, <<45>>}}

Roles == {"Operator", "Engineer", "Manager"}

\* Thresholds without any red entry, with a shop-floor temperature band and a
\* vibration band for CNC only.
PartialThresholds ==
    [prototype_low_temp  |-> [temperature |-> [green |-> 40, yellow |-> 45]],
     shopfloor_high_temp |-> [CNC |-> [green |-> 75, yellow |-> 95]],
     vibration           |-> [CNC |-> DEFAULT_THRESHOLDS["vibration"]["CNC"]],
     feed_rate           |-> DEFAULT_THRESHOLDS["feed_rate"],
     running_hours       |-> DEFAULT_THRESHOLDS["running_hours"]]

\* The defaults plus, in every per-machine table, bands for UnknownMachine.
DrillThresholds ==
    [prototype_low_temp  |-> DEFAULT_THRESHOLDS["prototype_low_temp"],
     shopfloor_high_temp |->
        [Drill |-> DEFAULT_THRESHOLDS["shopfloor_high_temp"]["CNC"]]
            @@ DEFAULT_THRESHOLDS["shopfloor_high_temp"],
     vibration |->
        [Drill |-> DEFAULT_THRESHOLDS["vibration"]["CNC"]]
            @@ DEFAULT_THRESHOLDS["vibration"],
     feed_rate |->
        [Drill |-> DEFAULT_THRESHOLDS["feed_rate"]["CNC"]]
            @@ DEFAULT_THRESHOLDS["feed_rate"],
     running_hours |->
        [Drill |-> DEFAULT_THRESHOLDS["running_hours"]["CNC"]]
            @@ DEFAULT_THRESHOLDS["running_hours"]]

\* The bodies posted to update_config.
ConfigPatches ==
    {[sensor_mode |-> "shopfloor_high_temp"],
     [thresholds |-> PartialThresholds],
     [thresholds |-> DrillThresholds]}

\* The bodies posted to ingest_temperature.
IngestBodies ==
    {[api_key |-> API_KEY, machine_type |-> "CNC", temperature |-> 0],
     [api_key |-> API_KEY, machine_type |-> "CNC", temperature |-> 95],
     [api_key |-> API_KEY, machine_type |-> "EDM", temperature |-> 45],
     [api_key |-> API_KEY, machine_type |-> UnknownMachine, temperature |-> 45],
     [api_key |-> "wrong_key", machine_type |-> "CNC", temperature |-> 130]}

\* The bodies used where two predict requests interleave.
FewPatches == {[sensor_mode |-> "shopfloor_high_temp"]}

FewIngests ==
    {[api_key |-> API_KEY, machine_type |-> "CNC", temperature |-> 0],
     [api_key |-> API_KEY, machine_type |-> "CNC", temperature |-> 95],
     [api_key |-> API_KEY, machine_type |-> "EDM", temperature |-> 45],
     [api_key |-> API_KEY, machine_type |-> UnknownMachine, temperature |-> 45],
     [api_key |-> "wrong_key", machine_type |-> "CNC", temperature |-> 130]}

\* ------------------------------------------------------------------------
\* Specifications
\* ------------------------------------------------------------------------

Init ==
    /\ db_config = <<>>
    /\ db_latest_temperature = <<>>
    /\ db_predictions = <<>>
    /\ pc = [p \in Procs |-> "idle"]
    /\ request = [p \in Procs |-> <<>>]
    /\ config = [p \in Procs |-> <<>>]
    /\ temperature = [p \in Procs |-> <<>>]
    /\ response = [p \in Procs |-> <<>>]
    /\ config_response = <<>>
    /\ sub_args = <<>>
    /\ sub_result = <<>>
    /\ last_ingested = [m \in MachineTypes |-> <<>>]

\* One predict request over the wide set of readings, against every
\* configuration and temperature store the other handlers can produce.
Next ==
    \/ \E req \in Readings : PredictFindConfig("p1", req)
    \/ PredictInsertConfig("p1")
    \/ PredictFindTemperature("p1")
    \/ PredictScoreAndSave("p1")
    \/ \E role \in Roles, config_data \in ConfigPatches : UpdateConfig(role, config_data)
    \/ \E data \in IngestBodies : IngestTemperature(data)

Spec == Init /\ [][Next]_vars

\* Two predict requests in flight together, over a few readings, with
\* get_config, update_config and ingest_temperature calls in between.
NextConc ==
    \/ \E p \in Procs, req \in FewReadings : PredictFindConfig(p, req)
    \/ \E p \in Procs : PredictInsertConfig(p)
    \/ \E p \in Procs : PredictFindTemperature(p)
    \/ \E p \in Procs : PredictScoreAndSave(p)
    \/ GetConfig
    \/ \E role \in Roles, config_data \in FewPatches : UpdateConfig(role, config_data)
    \/ \E data \in FewIngests : IngestTemperature(data)

SpecConc == Init /\ [][NextConc]_vars

\* ------------------------------------------------------------------------
\* calculate_subscore on its own
\* ------------------------------------------------------------------------

\* The largest breakpoint of the bands tried.
MaxBreakpoint == 5

\* calculate_subscore is called on the values 0, 1, ..., MaxValue.
MaxValue == 11

\* The bands with 0 < green < yellow, without red and with yellow < red.
SubBands ==
    {[green |-> g, yellow |-> y, red |-> <<>>] :
        g \in 1..MaxBreakpoint, y \in 1..MaxBreakpoint}
    \cup {[green |-> g, yellow |-> y, red |-> <<r>>] :
        g \in 1..MaxBreakpoint, y \in 1..MaxBreakpoint, r \in 1..MaxBreakpoint}

ValidBand(b) ==
    /\ 0 < b.green
    /\ b.green < b.yellow
    /\ b.red # <<>> => b.yellow < b.red[1]

InitSub ==
    /\ Init!1 /\ Init!2 /\ Init!3 /\ Init!4 /\ Init!5
    /\ Init!6 /\ Init!7 /\ Init!8 /\ Init!9 /\ Init!12
    /\ sub_args \in {<<b>> : b \in {x \in SubBands : ValidBand(x)}}
    /\ sub_result = <<>>

\* The next call: calculate_subscore(value, green, yellow, red) for the value
\* after the last one tried; sub_result lists the values returned so far,
\* for 0, 1, 2, ...
SubscoreCall ==
    /\ sub_args # <<>>
    /\ Len(sub_result) <= MaxValue
    /\ LET b     == sub_args[1]
           value == Len(sub_result)
       IN  /\ ~SubscoreRaises(value, b.green, b.yellow, b.red)
           /\ sub_result' =
                 Append(sub_result, calculate_subscore(value, b.green, b.yellow, b.red))
    /\ UNCHANGED <<db_config, db_latest_temperature, db_predictions, pc, request,
                   config, temperature, response, config_response, sub_args,
                   last_ingested>>

SpecSub == InitSub /\ [][SubscoreCall]_vars

\* ------------------------------------------------------------------------
\* Properties
\* ------------------------------------------------------------------------

Done(p) == pc[p] = "done"

\* The request ended with a result (status 200).
Returned(p) == Done(p) /\ response[p][1].status_code = 200

Req(p) == request[p][1]

Res(p) == response[p][1]

\* The bands of a result are the built-in defaults for its machine type.
DefaultBands(p) ==
    LET used == Res(p).thresholds_used
        m    == Req(p).machine_type
    IN  /\ m \in MachineTypes
        /\ used.temperature =
              IF used.sensor_mode = "prototype_low_temp"
              THEN DEFAULT_THRESHOLDS["prototype_low_temp"]["temperature"]
              ELSE DEFAULT_THRESHOLDS["shopfloor_high_temp"][m]
        /\ used.vibration = DEFAULT_THRESHOLDS["vibration"][m]
        /\ used.feed_rate = DEFAULT_THRESHOLDS["feed_rate"][m]
        /\ used.running_hours = DEFAULT_THRESHOLDS["running_hours"][m]

\* A raw value is past the red (temperature) or yellow (others) breakpoint.
Breach(p) ==
    LET used == Res(p).thresholds_used IN
    \/ temperature[p][1] > used.temperature["red"]
    \/ Req(p).vibration > used.vibration["yellow"]
    \/ Req(p).feeding_rate > used.feed_rate["yellow"]
    \/ Req(p).running_hours > used.running_hours["yellow"]

\* C1: under the default thresholds, a result whose temperature is above the
\* red breakpoint, or whose vibration, feeding rate or running hours is above
\* its yellow breakpoint, is Critical whatever its risk score.
C1_BreachIsCritical ==
    \A p \in Procs :
        (Returned(p) /\ DefaultBands(p) /\ Breach(p))
            => Res(p).condition_level = "Critical"

\* C1 witness: temperature far above red, the other three metrics 0, a risk
\* score below 70, and the result is Critical.
C1_Witness ==
    \E p \in Procs :
        /\ Returned(p) /\ DefaultBands(p)
        /\ temperature[p][1] = 130
        /\ Req(p).vibration = 0 /\ Req(p).feeding_rate = 0 /\ Req(p).running_hours = 0
        /\ RLt(Res(p).risk_score, RInt(70))
        /\ Res(p).condition_level = "Critical"

\* C2 as claimed: a Good result has all four metrics at or below their green
\* breakpoint and a risk score below 35, and its alerts are exactly
\* <<"All metrics within safe bands">>.
C2_GoodOnlyWithinGreen ==
    \A p \in Procs :
        (Returned(p) /\ Res(p).condition_level = "Good") =>
            LET used == Res(p).thresholds_used IN
            /\ temperature[p][1] <= used.temperature["green"]
            /\ Req(p).vibration <= used.vibration["green"]
            /\ Req(p).feeding_rate <= used.feed_rate["green"]
            /\ Req(p).running_hours <= used.running_hours["green"]
            /\ RLt(Res(p).risk_score, RInt(35))
            /\ Res(p).alerts = <<"All metrics within safe bands">>

InScoreRange(x) == RLe(RInt(0), x) /\ RLe(x, RInt(100))

\* C3 as claimed: under the default thresholds, the risk score of every
\* result returned, and of every prediction saved, is between 0 and 100.
C3_RiskScoreInRange ==
    /\ \A p \in Procs :
          (Returned(p) /\ DefaultBands(p)) => InScoreRange(Res(p).risk_score)
    /\ \A i \in 1..Len(db_predictions) :
          (\E p \in Procs : Returned(p) /\ DefaultBands(p)
                            /\ db_predictions[i] =
                                  PredictionDoc(Req(p), temperature[p][1], Res(p)))
              => InScoreRange(db_predictions[i].risk_score)

MetricOrder == <<"Temperature", "Vibration", "Feed rate", "Running hours">>

\* The fixed alert of a metric in a zone other than GREEN.
FixedAlert(metric, zone) ==
    CASE metric = "Temperature" /\ zone = "RED" -> "CRITICAL: Temperature exceeds safe limits"
      [] metric = "Temperature" /\ zone = "YELLOW" -> "Temperature approaching limits"
      [] metric = "Vibration" /\ zone = "RED" -> "Vibration exceeds normal range"
      [] metric = "Vibration" /\ zone = "YELLOW" -> "Vibration caution"
      [] metric = "Feed rate" /\ zone = "RED" -> "Feed rate too high"
      [] metric = "Feed rate" /\ zone = "YELLOW" -> "Feed rate elevated"
      [] metric = "Running hours" /\ zone = "RED" -> "Service window exceeded"
      [] metric = "Running hours" /\ zone = "YELLOW" -> "Service window approaching"

MetricAlerts ==
    {FixedAlert(m, z) : m \in {"Temperature", "Vibration", "Feed rate", "Running hours"},
                        z \in {"RED", "YELLOW"}}

GenericAlert(level) ==
    IF level = "Critical" THEN "Immediate repair recommended" ELSE "Schedule inspection"

GenericAlerts == {GenericAlert("Critical"), GenericAlert("Medium")}

\* One alert for each part of the explanation whose zone is not GREEN, in
\* the order of the parts.
RECURSIVE PhaseOne(_)
PhaseOne(parts) ==
    IF parts = <<>> THEN <<>>
    ELSE (IF Head(parts).zone = "GREEN" THEN <<>>
          ELSE <<FixedAlert(Head(parts).metric, Head(parts).zone)>>)
         \o PhaseOne(Tail(parts))

\* The value a part of the explanation is about lies in the zone the part
\* names: GREEN is "not above the yellow breakpoint" for temperature and
\* "not above the green breakpoint" for the other three metrics.
ZoneIsGreen(p, i) ==
    LET used == Res(p).thresholds_used IN
    CASE i = 1 -> temperature[p][1] <= used.temperature["yellow"]
      [] i = 2 -> Req(p).vibration <= used.vibration["green"]
      [] i = 3 -> Req(p).feeding_rate <= used.feed_rate["green"]
      [] i = 4 -> Req(p).running_hours <= used.running_hours["green"]

\* C4: the alerts of every result are non-empty; they are the per-metric
\* alerts of the metrics outside their GREEN zone, in the order temperature,
\* vibration, feed rate, running hours, except that a Good result has the
\* single alert "All metrics within safe bands" and a Critical or Medium
\* result without any per-metric alert has exactly its tier's generic alert;
\* a generic alert never stands beside a per-metric alert.
C4_AlertsTwoPhase ==
    \A p \in Procs : Returned(p) =>
        LET parts  == Res(p).explanation
            first  == PhaseOne(parts)
            alerts == Res(p).alerts
        IN  /\ alerts # <<>>
            /\ [i \in 1..4 |-> parts[i].metric] = MetricOrder
            /\ \A i \in 1..4 : (parts[i].zone = "GREEN") <=> ZoneIsGreen(p, i)
            /\ alerts =
                  IF Res(p).condition_level = "Good"
                  THEN <<"All metrics within safe bands">>
                  ELSE IF first = <<>>
                       THEN <<GenericAlert(Res(p).condition_level)>>
                       ELSE first
            /\ ~ \E i, j \in 1..Len(alerts) :
                    alerts[i] \in GenericAlerts /\ alerts[j] \in MetricAlerts

\* C4 witness: a result whose alerts are three per-metric alerts in order
\* (temperature, vibration, feed rate), running hours being GREEN.
C4_Witness ==
    \E p \in Procs :
        /\ Returned(p)
        /\ Res(p).alerts = <<"Temperature approaching limits", "Vibration caution",
                             "Feed rate too high">>
        /\ Res(p).explanation[4].zone = "GREEN"

SensorModes == {"prototype_low_temp", "shopfloor_high_temp"}

\* Some reading of a known machine type, scored against the defaults, gives
\* this tier with this alert alone.
SomeReadingGives(level, alert) ==
    \E r \in Readings, mode \in SensorModes :
        /\ r.machine_type \in MachineTypes
        /\ r.temperature # <<>>
        /\ LET result == Score(r, r.temperature[1], mode, DEFAULT_THRESHOLDS)
           IN  result.condition_level = level /\ result.alerts = <<alert>>

\* C5 as claimed: under the default thresholds some reading gives Critical
\* with alerts exactly <<"Immediate repair recommended">>, and some reading
\* gives Medium with alerts exactly <<"Schedule inspection">>.
C5_GenericAlertsBothOccur ==
    /\ SomeReadingGives("Medium", "Schedule inspection")
    /\ SomeReadingGives("Critical", "Immediate repair recommended")

\* C5 amended: under the default thresholds a Critical result never has the
\* generic alert: "Immediate repair recommended" is in no result's alerts.
\* (Medium with exactly <<"Schedule inspection">> does occur: C5_Witness.)
C5_CriticalNeverGeneric ==
    \A p \in Procs :
        (Returned(p) /\ DefaultBands(p)) =>
            /\ \A i \in 1..Len(Res(p).alerts) :
                  Res(p).alerts[i] # "Immediate repair recommended"
            /\ Res(p).condition_level = "Critical" => PhaseOne(Res(p).explanation) # <<>>

\* C5 witness: a Medium result under the defaults whose risk score is at
\* least 35, with no per-metric alert and alerts <<"Schedule inspection">>.
C5_Witness ==
    \E p \in Procs :
        /\ Returned(p) /\ DefaultBands(p)
        /\ Res(p).condition_level = "Medium"
        /\ RGe(Res(p).risk_score, RInt(35))
        /\ PhaseOne(Res(p).explanation) = <<>>
        /\ Res(p).alerts = <<"Schedule inspection">>

\* The stored configuration lacks something the evaluation of this request
\* reads: the thresholds key, a table or band for the machine type, or a
\* green, yellow or (temperature) red entry of a band.
ConfigLacksBand(cfg, req) ==
    \/ "thresholds" \notin DOMAIN cfg
    \/ LET sensor_mode == ConfigSensorMode(cfg)
           thresholds  == cfg["thresholds"]
           machine     == req.machine_type
       IN  \/ LookupRaises(sensor_mode, thresholds, machine)
           \/ ~({"green", "yellow", "red"} \subseteq
                   DOMAIN temp_thresholds(sensor_mode, thresholds, machine))
           \/ \E band \in {vib_thresholds(thresholds, machine),
                           feed_thresholds(thresholds, machine),
                           hours_thresholds(thresholds, machine)} :
                 ~({"green", "yellow"} \subseteq DOMAIN band)

\* C6 as claimed: when the configuration a predict request read lacks a band
\* the evaluation needs (the whole thresholds key and the temperature band's
\* red entry included), the request ends without a result and saves no
\* prediction.
C6_IncompleteConfigFails ==
    [][\A p \in Procs :
          (pc[p] = "score" /\ pc'[p] = "done"
           /\ ConfigLacksBand(config[p][1], request[p][1]))
              => /\ response'[p][1].status_code # 200
                 /\ db_predictions' = db_predictions]_vars

\* C7 as claimed: a predict request for a machine type other than CNC, EDM,
\* Lathe, Grinding ends without a result, and no prediction for such a
\* machine type is ever saved.
C7_UnknownMachineRejected ==
    /\ \A p \in Procs :
          (Done(p) /\ Req(p).machine_type \notin MachineTypes)
              => Res(p).status_code # 200
    /\ \A i \in 1..Len(db_predictions) :
          db_predictions[i].machine_type \in MachineTypes

HasLatestTemperature(machine) ==
    \E i \in 1..Len(db_latest_temperature) :
        db_latest_temperature[i].machine_type = machine

\* C8: a predict request without a temperature, for a machine type that has
\* no latest-temperature document, ends with status 400; a request that
\* supplies temperature 0 never ends with 400, is scored with 0 and, when it
\* returns a result, has saved a prediction with temperature 0; and the
\* predictions saved are exactly one per request that returned a result.
C8_MissingTemperature ==
    /\ \A p \in Procs : Done(p) =>
          /\ (Req(p).temperature = <<>> /\ ~HasLatestTemperature(Req(p).machine_type))
                => Res(p).status_code = 400
          /\ Req(p).temperature = <<0>> =>
                /\ Res(p).status_code # 400
                /\ temperature[p] = <<0>>
                /\ Res(p).status_code = 200 =>
                      \E i \in 1..Len(db_predictions) :
                          db_predictions[i] = PredictionDoc(Req(p), 0, Res(p))
    /\ Len(db_predictions) = Cardinality({p \in Procs : Returned(p)})

\* C8 witness: a request without a temperature ended with 400 and nothing
\* saved, while another machine type does have a latest temperature.
C8_Witness ==
    \E p \in Procs :
        /\ Done(p)
        /\ Req(p).temperature = <<>>
        /\ Req(p).machine_type \in MachineTypes
        /\ ~HasLatestTemperature(Req(p).machine_type)
        /\ db_latest_temperature # <<>>
        /\ Res(p).status_code = 400
        /\ db_predictions = <<>>

\* The steepest of the slopes of the segments of a band.
MaxSlope(b) ==
    LET slopes == {Rat(30, b.green), Rat(40, b.yellow - b.green),
                   IF b.red # <<>> THEN Rat(30, b.red[1] - b.yellow)
                   ELSE Rat(30, b.yellow)}
    IN  CHOOSE x \in slopes : \A y \in slopes : RLe(y, x)

\* C9: for a band 0 < green < yellow (< red), calculate_subscore is 0 at
\* value 0, 30 at green, 70 at yellow and, with a red breakpoint, 100 at red
\* and beyond; over the values 0, 1, 2, ... it never decreases, and from one
\* value to the next it rises by no more than the steepest segment's slope
\* (no jump at a breakpoint).
C9_SubscoreShape ==
    sub_args # <<>> =>
        LET b == sub_args[1] IN
        \A i \in 1..Len(sub_result) :
            LET value == i - 1 IN
            /\ value = 0 => sub_result[i] = RInt(0)
            /\ value = b.green => sub_result[i] = RInt(30)
            /\ value = b.yellow => sub_result[i] = RInt(70)
            /\ (b.red # <<>> /\ value >= b.red[1]) => sub_result[i] = RInt(100)
            /\ i > 1 =>
                  /\ RLe(sub_result[i - 1], sub_result[i])
                  /\ RLe(RSub(sub_result[i], sub_result[i - 1]), MaxSlope(b))

\* C9 witness: a band with a red breakpoint whose values have been tried
\* from 0 to past red.
C9_Witness ==
    /\ sub_args # <<>>
    /\ sub_args[1].red # <<>>
    /\ Len(sub_result) > sub_args[1].red[1] + 2
    /\ sub_result[Len(sub_result)] = RInt(100)

\* Every predict request is either not started or finished, and one has
\* finished.
PredictsFinished ==
    /\ \A p \in Procs : pc[p] \in {"idle", "done"}
    /\ \E p \in Procs : Done(p)

\* C10 as claimed: once the predict requests have finished, the config
\* collection holds exactly one document; and when it holds nothing but the
\* built-in defaults, every result was scored against them in
\* prototype_low_temp mode.
C10_OneConfigDocument ==
    PredictsFinished =>
        /\ Len(db_config) = 1
        /\ (\A i \in 1..Len(db_config) : db_config[i] = DefaultConfig) =>
              \A p \in Procs : Returned(p) =>
                  /\ Res(p).thresholds_used.sensor_mode = "prototype_low_temp"
                  /\ DefaultBands(p)

\* ------------------------------------------------------------------------
\* C11: the latest temperature
\* ------------------------------------------------------------------------

\* The temperature of the last ingest_temperature call for `machine` that
\* returned ok; <<>> when there was none.
LastIngested(machine) ==
    IF machine \in MachineTypes THEN last_ingested[machine] ELSE <<>>

\* The latest_temperature collection holds at most one document per machine
\* type, and that document carries the last temperature ingested for it.
LatestTemperatureStore ==
    /\ \A i, j \in 1..Len(db_latest_temperature) :
          db_latest_temperature[i].machine_type = db_latest_temperature[j].machine_type
              => i = j
    /\ \A i \in 1..Len(db_latest_temperature) :
          LET doc == db_latest_temperature[i] IN
          /\ doc.machine_type \in MachineTypes
          /\ <<doc.temperature>> = last_ingested[doc.machine_type]
    /\ \A m \in MachineTypes :
          last_ingested[m] # <<>> => HasLatestTemperature(m)

\* The steps of a predict request that supplied no temperature: the lookup
\* takes the temperature last ingested for the machine type (status 400 when
\* there is none), and the scoring step saves and reports that temperature.
\* No step of a predict request, and no rejected ingest, changes the
\* collection.
LatestTemperatureStep ==
    /\ \A p \in Procs :
          /\ (pc[p] = "find_temperature" /\ pc'[p] # "find_temperature") =>
                LET last == LastIngested(Req(p).machine_type) IN
                /\ Req(p).temperature = <<>>
                /\ IF last = <<>>
                   THEN pc'[p] = "done" /\ response'[p][1].status_code = 400
                   ELSE pc'[p] = "score" /\ temperature'[p] = last
          /\ (pc[p] = "score" /\ pc'[p] = "done" /\ response'[p][1].status_code = 200) =>
                LET saved == db_predictions'[Len(db_predictions')] IN
                /\ Len(db_predictions') = Len(db_predictions) + 1
                /\ saved.machine_type = Req(p).machine_type
                /\ saved.temperature = temperature[p][1]
                /\ response'[p][1].explanation[1].metric = "Temperature"
                /\ response'[p][1].explanation[1].value = temperature[p][1]
    /\ pc' # pc => db_latest_temperature' = db_latest_temperature
    /\ last_ingested' = last_ingested => db_latest_temperature' = db_latest_temperature

\* C11: a predict call for machine type M that supplies no temperature
\* scores with, and saves, the temperature of the most recent successful
\* ingest_temperature call for M; ingests for other machine types, ingests
\* rejected for a wrong API key or an invalid machine type, and temperatures
\* supplied to predict calls never change that value; and the store holds at
\* most one latest-temperature document per machine type.
C11_LatestTemperature ==
    /\ []LatestTemperatureStore
    /\ [][LatestTemperatureStep]_vars

\* C11 witness: two requests for CNC without a temperature have returned,
\* the first scored and saved with the 0 ingested first, the second with the
\* 95 ingested after it, while a temperature for EDM is stored too and the
\* store has a single CNC document.
C11_Witness ==
    /\ \A p \in Procs :
          /\ Returned(p)
          /\ Req(p).machine_type = "CNC"
          /\ Req(p).temperature = <<>>
    /\ Len(db_predictions) = 2
    /\ db_predictions[1].temperature = 0
    /\ db_predictions[2].temperature = 95
    /\ last_ingested["CNC"] = <<95>>
    /\ last_ingested["EDM"] = <<45>>
    /\ Len(db_latest_temperature) = 2

====
